---- MODULE Spec2Model ----
(***************************************************************************)
(* Model of src/src/index.ts: the ImageAssertions class (generateImage,    *)
(* validateImage) and the jest matcher toSatisfyImageAssertions.           *)
(*                                                                         *)
(* Text is modelled as a sequence of lexical tokens: the characters the    *)
(* code's regular expressions and JSON.parse distinguish are single        *)
(* tokens (backtick, newline, space, braces, quote, colon, comma), every   *)
(* other run of characters is a word token ("json", "true", "7", ...).     *)
(* JavaScript values are records [t, n, s, a, m]: the type tag, the        *)
(* number, the string (a token sequence), the array items and the object   *)
(* members (a sequence of <<key, value>> pairs).                           *)
(***************************************************************************)
EXTENDS Integers, Sequences, FiniteSets, TLC

VARIABLES
  region,   \* this.region of the ImageAssertions instance
  bedrock,  \* this.bedrock, the client made by the constructor
  calls,    \* per caller: the method call it has in progress
  test      \* the jest test: its validationResult and what the matcher said

vars == <<region, bedrock, calls, test>>

\* ------------------------------------------------------------------------
\* JavaScript values
\* ------------------------------------------------------------------------

JsVal(t, n, s, a, m) == [t |-> t, n |-> n, s |-> s, a |-> a, m |-> m]

Undefined == JsVal("undefined", 0, <<>>, <<>>, <<>>)

JsNull == JsVal("null", 0, <<>>, <<>>, <<>>)

JsBool(b) == JsVal("boolean", IF b THEN 1 ELSE 0, <<>>, <<>>, <<>>)

JsTrue == JsBool(TRUE)

JsFalse == JsBool(FALSE)

JsNum(k) == JsVal("number", k, <<>>, <<>>, <<>>)

JsStr(toks) == JsVal("string", 0, toks, <<>>, <<>>)

JsArr(items) == JsVal("array", Len(items), <<>>, items, <<>>)

JsObj(members) == JsVal("object", 0, <<>>, <<>>, members)

\* The word tokens JSON.parse reads as numbers, and their values.
NumberTokens == {"0", "1", "2", "3", "4", "5", "6", "7", "8", "9", "10", "11"}

NumberValue(tok) ==
  CASE tok = "0" -> 0 [] tok = "1" -> 1 [] tok = "2" -> 2 [] tok = "3" -> 3
    [] tok = "4" -> 4 [] tok = "5" -> 5 [] tok = "6" -> 6 [] tok = "7" -> 7
    [] tok = "8" -> 8 [] tok = "9" -> 9 [] tok = "10" -> 10 [] tok = "11" -> 11

\* JavaScript truthiness (the ! operator, ||, && and if).
Truthy(v) ==
  CASE v.t = "undefined" -> FALSE
    [] v.t = "null" -> FALSE
    [] v.t = "boolean" -> v.n = 1
    [] v.t = "number" -> v.n # 0
    [] v.t = "string" -> v.s # <<>>
    [] OTHER -> TRUE

\* ToNumber for the relational operators: [n, nan].  A string converts when
\* it is empty or one number token; undefined, objects and arrays of the
\* shapes used here do not convert.
ToNumber(v) ==
  CASE v.t = "number" -> [n |-> v.n, nan |-> FALSE]
    [] v.t = "boolean" -> [n |-> v.n, nan |-> FALSE]
    [] v.t = "null" -> [n |-> 0, nan |-> FALSE]
    [] v.t = "string" ->
         IF v.s = <<>> THEN [n |-> 0, nan |-> FALSE]
         ELSE IF Len(v.s) = 1 /\ v.s[1] \in NumberTokens
              THEN [n |-> NumberValue(v.s[1]), nan |-> FALSE]
              ELSE [n |-> 0, nan |-> TRUE]
    [] OTHER -> [n |-> 0, nan |-> TRUE]

\* a >= b on JavaScript values (a comparison with NaN is false).
JsGE(a, b) ==
  LET x == ToNumber(a)
      y == ToNumber(b)
  IN  ~x.nan /\ ~y.nan /\ x.n >= y.n

\* a === b: same type and same value; objects and arrays are compared by
\* reference, and no two values of this model share a reference.
StrictEquals(a, b) ==
  /\ a.t = b.t
  /\ a.t \notin {"object", "array"}
  /\ a.n = b.n
  /\ a.s = b.s

\* a && b
JsAnd(a, b) == IF Truthy(a) THEN b ELSE a

\* ------------------------------------------------------------------------
\* Text
\* ------------------------------------------------------------------------

\* The backtick character.
BT == "BACKTICK"

NL == "\n"

SP == " "

QT == "\""

\* \s of the regular expressions, and the whitespace trim() strips.
IsSpace(tok) == tok \in {SP, NL}

RECURSIVE SkipSpace(_, _)
\* The first index >= i of text that is not whitespace (Len + 1 if none).
SkipSpace(text, i) ==
  IF i <= Len(text) /\ IsSpace(text[i]) THEN SkipSpace(text, i + 1) ELSE i

\* Does the literal lit occur in text at index i?
OccursAt(text, lit, i) ==
  /\ i >= 1
  /\ i + Len(lit) - 1 <= Len(text)
  /\ \A k \in 1..Len(lit) : text[i + k - 1] = lit[k]

\* String.prototype.replace(/<lit>\s*/, empty): the leftmost occurrence of the
\* literal and the whitespace that follows it are removed, once.
ReplaceFirst(text, lit) ==
  LET hits == {i \in 1..Len(text) : OccursAt(text, lit, i)}
  IN  IF hits = {} THEN text
      ELSE LET i == CHOOSE h \in hits : \A g \in hits : h <= g
               j == SkipSpace(text, i + Len(lit))
           IN  SubSeq(text, 1, i - 1) \o SubSeq(text, j, Len(text))

RECURSIVE RemoveAll(_, _)
\* String.prototype.replace(/<tok>/g, empty)
RemoveAll(text, tok) ==
  IF text = <<>> THEN <<>>
  ELSE IF Head(text) = tok THEN RemoveAll(Tail(text), tok)
       ELSE <<Head(text)>> \o RemoveAll(Tail(text), tok)

RECURSIVE TrimEnd(_)
TrimEnd(text) ==
  IF text # <<>> /\ IsSpace(text[Len(text)])
  THEN TrimEnd(SubSeq(text, 1, Len(text) - 1))
  ELSE text

\* String.prototype.trim()
Trim(text) ==
  LET i == SkipSpace(text, 1)
  IN  TrimEnd(SubSeq(text, i, Len(text)))

FenceJson == <<BT, BT, BT, "json">>

Fence == <<BT, BT, BT>>

\* const cleanedResponse = content.replace(...).replace(...).replace(...).trim()
CleanResponse(content) ==
  Trim(RemoveAll(ReplaceFirst(ReplaceFirst(content, FenceJson), Fence), NL))

\* Mutant: an opening brace is enough, the match runs to the end of the text.
MatchBracesLoose(text) ==
  LET opens == {i \in 1..Len(text) : text[i] = "{"}
  IN  IF opens = {} THEN <<>>
      ELSE SubSeq(text, CHOOSE h \in opens : \A g \in opens : h <= g, Len(text))

\* cleanedResponse.match(/\{.*\}/s): the span from the first "{" to the last
\* "}" after it; <<>> stands for null (a match is never empty).
MatchBraces(text) ==
  LET opens == {i \in 1..Len(text) : text[i] = "{"}
  IN  IF opens = {} THEN <<>>
      ELSE LET i == CHOOSE h \in opens : \A g \in opens : h <= g
               closes == {j \in (i + 1)..Len(text) : text[j] = "}"}
           IN  IF closes = {} THEN <<>>
               ELSE LET j == CHOOSE h \in closes : \A g \in closes : h >= g
                    IN  SubSeq(text, i, j)

\* ------------------------------------------------------------------------
\* JSON.parse on token text.  A parse step yields [ok, val, next]: whether
\* a value was read, the value, and the index after it.
\* ------------------------------------------------------------------------

ParseFail == [ok |-> FALSE, val |-> Undefined, next |-> 0]

ParseOk(v, next) == [ok |-> TRUE, val |-> v, next |-> next]

\* A string literal opening at text[i] = QT: it runs to the next quote and
\* holds no raw newline (a control character is a syntax error).
ParseString(text, i) ==
  LET closes == {j \in (i + 1)..Len(text) : text[j] = QT}
  IN  IF closes = {} THEN ParseFail
      ELSE LET j == CHOOSE h \in closes : \A g \in closes : h <= g
               body == SubSeq(text, i + 1, j - 1)
           IN  IF \E k \in 1..Len(body) : body[k] = NL THEN ParseFail
               ELSE ParseOk(JsStr(body), j + 1)

RECURSIVE ParseValue(_, _)
RECURSIVE ParseMembers(_, _, _)
RECURSIVE ParseItems(_, _, _)

\* The members of an object from index i (not whitespace), acc read so far.
ParseMembers(text, i, acc) ==
  IF i > Len(text) \/ text[i] # QT THEN ParseFail
  ELSE LET k == ParseString(text, i)
       IN  IF ~k.ok THEN ParseFail
           ELSE LET c == SkipSpace(text, k.next)
                IN  IF c > Len(text) \/ text[c] # ":" THEN ParseFail
                    ELSE LET v == ParseValue(text, c + 1)
                         IN  IF ~v.ok THEN ParseFail
                             ELSE LET d == SkipSpace(text, v.next)
                                      all == Append(acc, <<k.val.s, v.val>>)
                                  IN  IF d > Len(text) THEN ParseFail
                                      ELSE IF text[d] = "}"
                                           THEN ParseOk(JsObj(all), d + 1)
                                      ELSE IF text[d] = ","
                                           THEN ParseMembers(text, SkipSpace(text, d + 1), all)
                                      ELSE ParseFail

\* The items of an array from index i, acc read so far.
ParseItems(text, i, acc) ==
  LET v == ParseValue(text, i)
  IN  IF ~v.ok THEN ParseFail
      ELSE LET d == SkipSpace(text, v.next)
               all == Append(acc, v.val)
           IN  IF d > Len(text) THEN ParseFail
               ELSE IF text[d] = "]" THEN ParseOk(JsArr(all), d + 1)
               ELSE IF text[d] = "," THEN ParseItems(text, d + 1, all)
               ELSE ParseFail

ParseValue(text, i0) ==
  LET i == SkipSpace(text, i0)
  IN  IF i > Len(text) THEN ParseFail
      ELSE LET tok == text[i]
           IN  CASE tok = "true" -> ParseOk(JsTrue, i + 1)
                 [] tok = "false" -> ParseOk(JsFalse, i + 1)
                 [] tok = "null" -> ParseOk(JsNull, i + 1)
                 [] tok \in NumberTokens -> ParseOk(JsNum(NumberValue(tok)), i + 1)
                 [] tok = QT -> ParseString(text, i)
                 [] tok = "{" ->
                      LET j == SkipSpace(text, i + 1)
                      IN  IF j <= Len(text) /\ text[j] = "}"
                          THEN ParseOk(JsObj(<<>>), j + 1)
                          ELSE ParseMembers(text, j, <<>>)
                 [] tok = "[" ->
                      LET j == SkipSpace(text, i + 1)
                      IN  IF j <= Len(text) /\ text[j] = "]"
                          THEN ParseOk(JsArr(<<>>), j + 1)
                          ELSE ParseItems(text, j, <<>>)
                 [] OTHER -> ParseFail

\* JSON.parse(text): one value and nothing but whitespace after it;
\* ok = FALSE stands for the SyntaxError it throws.
JSONParse(text) ==
  LET r == ParseValue(text, 1)
  IN  IF r.ok /\ SkipSpace(text, r.next) = Len(text) + 1
      THEN [ok |-> TRUE, val |-> r.val]
      ELSE [ok |-> FALSE, val |-> Undefined]

\* v.key for a value that is neither null nor undefined: the last member of
\* that name of an object, undefined otherwise.
GetProp(v, key) ==
  LET hits == {i \in 1..Len(v.m) : v.m[i][1] = <<key>>}
  IN  IF v.t # "object" \/ hits = {} THEN Undefined
      ELSE v.m[CHOOSE h \in hits : \A g \in hits : h >= g][2]

\* v.length
LengthOf(v) ==
  CASE v.t = "array" -> JsNum(v.n)
    [] v.t = "string" -> JsNum(Len(v.s))
    [] OTHER -> Undefined

\* v[0]
FirstOf(v) ==
  CASE v.t = "array" -> IF v.n = 0 THEN Undefined ELSE v.a[1]
    [] v.t = "string" -> IF v.s = <<>> THEN Undefined ELSE JsStr(<<v.s[1]>>)
    [] OTHER -> Undefined

\* A Uint8Array or Buffer: s holds the bytes, three to a token.
JsBytes(toks) == JsVal("bytes", 0, toks, <<>>, <<>>)

\* The base64 quads of the model and the three bytes each encodes.
Base64Quads == {"QUJD", "eHl6"}

DecodeQuad(q) == IF q = "QUJD" THEN "ABC" ELSE "xyz"

RECURSIVE Base64Decode(_)
\* Buffer.from(text, 'base64'): every quad gives its bytes; what is not
\* base64 is skipped.
Base64Decode(text) ==
  IF text = <<>> THEN <<>>
  ELSE IF Head(text) \in Base64Quads
       THEN <<DecodeQuad(Head(text))>> \o Base64Decode(Tail(text))
       ELSE Base64Decode(Tail(text))

\* ------------------------------------------------------------------------
\* Errors: the class name and the message of a thrown value.
\* ------------------------------------------------------------------------

Err(name, message) == [name |-> name, message |-> message]

NoError == Err("", "")

MsgNoImage == "Either imageBytes or base64Image must be provided"

MsgNoAssertion == "Assertion prompt is required"

MsgNoOutput == "No validation output received from model"

MsgNoJson == "Model response did not include a valid JSON block"

MsgNoBody == "No response body received from model"

MsgNoImages == "No images returned from model"

MsgNoImageData == "No image data found in response"

MsgGenerationFailed == "Image generation failed: "

\* What the runtime throws by itself.
JsonSyntaxError == Err("SyntaxError", "Unexpected token in JSON")

IndexOfUndefined == Err("TypeError", "Cannot read properties of undefined (reading '0')")

ImagesOfNull == Err("TypeError", "Cannot read properties of null (reading 'images')")

BufferArgument == Err("TypeError", "The first argument must be of type string or an instance of Buffer")

\* ------------------------------------------------------------------------
\* Requests, responses, outcomes
\* ------------------------------------------------------------------------

\* The options object of either method; an absent property is Undefined.
\* imageConfig, temperature, topP and maxTokensToSample are copied into
\* the command and read nowhere else: they are left out.
Options(prompt, modelId, rgn, imageBytes, base64Image, assertionPrompt, confidenceThreshold) ==
  [region |-> rgn, prompt |-> prompt, modelId |-> modelId,
   imageBytes |-> imageBytes, base64Image |-> base64Image,
   assertionPrompt |-> assertionPrompt,
   confidenceThreshold |-> confidenceThreshold]

NoOptions ==
  Options(Undefined, Undefined, Undefined, Undefined, Undefined, Undefined, Undefined)

\* What client.send settles with.  error # NoError: the promise rejects.
\* shape tells how much of response.output.message.content is there:
\* "noOutput", "noMessage", "noContent" or "content" (then blocks is the
\* content list, each block its text property); body is response.body.
Response(error, shape, blocks, body) ==
  [body |-> body, error |-> error, shape |-> shape, blocks |-> blocks]

NoResponse == Response(NoError, "none", <<>>, Undefined)

Verdict(assertionsMet, score, tone, explanation) ==
  [assertionsMet |-> assertionsMet, score |-> score, tone |-> tone,
   explanation |-> explanation]

NoVerdict == Verdict(Undefined, Undefined, Undefined, Undefined)

GenerationResult(imageBytes, base64Image, modelId) ==
  [modelId |-> modelId, imageBytes |-> imageBytes, base64Image |-> base64Image]

NoResult == GenerationResult(Undefined, Undefined, Undefined)

\* How a call ended: status is "returned" or "threw"; stage is the last
\* step of the method that ran.
Outcome(status, error, verdict, result, stage) ==
  [error |-> error, status |-> status, verdict |-> verdict, result |-> result,
   stage |-> stage]

NoOutcome == Outcome("none", NoError, NoVerdict, NoResult, "none")

Threw(error, stage) == Outcome("threw", error, NoVerdict, NoResult, stage)

\* A destructuring default: it applies to undefined alone.
Default(v, d) == IF v.t = "undefined" THEN d ELSE v

\* a || b
JsOr(a, b) == IF Truthy(a) THEN a ELSE b

DefaultRegion == <<"us-east-1">>

DefaultValidationModel == JsStr(<<"us.amazon.nova-premier-v1:0">>)

DefaultGenerationModel == JsStr(<<"amazon.titan-image-generator-v2:0">>)

DefaultConfidenceThreshold == 7

\* ------------------------------------------------------------------------
\* validateImage
\* ------------------------------------------------------------------------

\* Mutant: the assertion prompt is not checked.
ValidatePreconditionsImageOnly(options) ==
  IF ~Truthy(options.imageBytes) /\ ~Truthy(options.base64Image)
  THEN Err("Error", MsgNoImage)
  ELSE NoError

\* The two checks at the head of validateImage: the error thrown, or
\* NoError.
ValidatePreconditions(options) ==
  IF ~Truthy(options.imageBytes) /\ ~Truthy(options.base64Image)
  THEN Err("Error", MsgNoImage)
  ELSE IF ~Truthy(options.assertionPrompt)
       THEN Err("Error", MsgNoAssertion)
       ELSE NoError

\* Mutant: the threshold is kept in a field of the instance, where the
\* call of another caller that is still awaiting has overwritten it.
ConfidenceThresholdShared(options) ==
  LET others == {calls[d].options.confidenceThreshold :
                   d \in {x \in DOMAIN calls : calls[x].pc = "awaiting" /\ calls[x].op = "validate"}}
                  \ {options.confidenceThreshold}
  IN  IF others = {} THEN Default(options.confidenceThreshold, JsNum(DefaultConfidenceThreshold))
      ELSE Default(CHOOSE t \in others : TRUE, JsNum(DefaultConfidenceThreshold))

ConfidenceThreshold(options) ==
  Default(options.confidenceThreshold, JsNum(DefaultConfidenceThreshold))

\* The ConverseCommand: the model, the prompt with the assertion in it and
\* the image bytes (the raw bytes, else the decoded base64 text).
ConverseCommand(options) ==
  [text |-> <<"Evaluate", SP, QT>> \o options.assertionPrompt.s \o <<QT>>,
   modelId |-> Default(options.modelId, DefaultValidationModel),
   api |-> "Converse",
   bytes |-> JsOr(options.imageBytes,
                  JsBytes(Base64Decode(JsOr(options.base64Image, JsStr(<<>>)).s)))]

\* (response.output?.message?.content as ContentBlock[])[0]?.text
\* [val, error]: indexing an absent list throws.
FirstText(resp) ==
  IF resp.shape # "content"
  THEN [val |-> Undefined, error |-> IndexOfUndefined]
  ELSE [val |-> IF resp.blocks = <<>> THEN Undefined ELSE resp.blocks[1].text,
        error |-> NoError]

\* Mutant: the boolean of the model is returned as it is.
AssertionsMetTrusting(result, threshold) == GetProp(result, "assertionsMet")

\* const assertionsMet = result.score >= confidenceThreshold && result.assertionsMet
AssertionsMet(result, threshold) ==
  JsAnd(JsBool(JsGE(GetProp(result, "score"), threshold)),
        GetProp(result, "assertionsMet"))

\* validateImage from the cleaned text on: match, parse, verdict.
VerdictOfText(options, content) ==
  LET cleanedResponse == CleanResponse(content)
      jsonMatch == MatchBraces(cleanedResponse)
      parsed == JSONParse(Trim(jsonMatch))
      result == parsed.val
  IN  IF jsonMatch = <<>> THEN Threw(Err("Error", MsgNoJson), "match")
      ELSE IF ~parsed.ok THEN Threw(JsonSyntaxError, "parse")
      ELSE Outcome("returned", NoError,
                   Verdict(AssertionsMet(result, ConfidenceThreshold(options)),
                           GetProp(result, "score"),
                           GetProp(result, "tone"),
                           GetProp(result, "explanation")),
                   NoResult, "verdict")

\* validateImage from the await on, given what send settled with.
ValidateReply(options, resp) ==
  IF resp.error # NoError THEN Threw(resp.error, "send")
  ELSE LET first == FirstText(resp)
       IN  IF first.error # NoError THEN Threw(first.error, "content")
           ELSE IF ~Truthy(first.val) THEN Threw(Err("Error", MsgNoOutput), "content")
           ELSE VerdictOfText(options, first.val.s)

\* ------------------------------------------------------------------------
\* generateImage
\* ------------------------------------------------------------------------

\* A BedrockRuntimeClient: which object it is and the region it serves.
Client(id, rgn) == [region |-> rgn, id |-> id]

NoClient == Client("none", <<>>)

\* Mutant: every region that is given gets a new client, the configured
\* one included.
ClientForGivenRegion(options, thisRegion, thisBedrock) ==
  IF options.region = Undefined THEN thisBedrock
  ELSE Client("scoped", options.region.s)

\* const client = region === this.region ? this.bedrock : new BedrockRuntimeClient({ region })
ClientFor(options, thisRegion, thisBedrock) ==
  LET rgn == Default(options.region, JsStr(thisRegion))
  IN  IF StrictEquals(rgn, JsStr(thisRegion)) THEN thisBedrock
      ELSE Client("scoped", rgn.s)

InvokeModelCommand(options) ==
  [text |-> options.prompt.s,
   modelId |-> Default(options.modelId, DefaultGenerationModel),
   api |-> "InvokeModel",
   bytes |-> Undefined]

\* The body of the try block of generateImage, given what send settled with.
GenerateTry(options, resp) ==
  LET parsed == JSONParse(resp.body.s)
      responseBody == parsed.val
      images == GetProp(responseBody, "images")
      base64Image == FirstOf(images)
  IN  IF resp.error # NoError THEN Threw(resp.error, "send")
      ELSE IF ~Truthy(resp.body) THEN Threw(Err("Error", MsgNoBody), "body")
      ELSE IF ~parsed.ok THEN Threw(JsonSyntaxError, "parse")
      ELSE IF responseBody.t = "null" THEN Threw(ImagesOfNull, "images")
      ELSE IF ~Truthy(images) \/ StrictEquals(LengthOf(images), JsNum(0))
           THEN Threw(Err("Error", MsgNoImages), "images")
      ELSE IF ~Truthy(base64Image) THEN Threw(Err("Error", MsgNoImageData), "first")
      ELSE IF base64Image.t # "string" THEN Threw(BufferArgument, "decode")
      ELSE Outcome("returned", NoError, NoVerdict,
                   GenerationResult(JsBytes(Base64Decode(base64Image.s)),
                                    base64Image,
                                    Default(options.modelId, DefaultGenerationModel)),
                   "result")

\* Mutant: no catch block.
GenerateCatchRethrow(outcome) == outcome

\* The catch block: whatever was thrown is thrown again as an Error whose
\* message is the prefix and the message of the cause.
GenerateCatch(outcome) ==
  IF outcome.status = "threw"
  THEN Threw(Err("Error", MsgGenerationFailed \o outcome.error.message), outcome.stage)
  ELSE outcome

GenerateReply(options, resp) == GenerateCatch(GenerateTry(options, resp))

\* ------------------------------------------------------------------------
\* toSatisfyImageAssertions
\* ------------------------------------------------------------------------

VerdictKeys == {"assertionsMet", "score", "tone", "explanation"}

\* Mutant: the expected score is an exact target.
EntryPassesExact(received, key, value) ==
  IF key \in VerdictKeys THEN StrictEquals(received[key], value)
  ELSE StrictEquals(Undefined, value)

\* The callback of every(): does the received verdict pass on this entry
\* of the expectation?
EntryPasses(received, key, value) ==
  IF key = "assertionsMet" THEN StrictEquals(received.assertionsMet, value)
  ELSE IF key = "score" THEN JsGE(received.score, value)
  ELSE IF key = "tone" THEN StrictEquals(received.tone, value)
  ELSE IF key \in VerdictKeys THEN StrictEquals(received[key], value)
  ELSE StrictEquals(Undefined, value)

\* Mutant: some() in the place of every().
MatcherPassSome(received, expected) ==
  \E key \in DOMAIN expected : EntryPasses(received, key, expected[key])

\* Object.entries(expected).every(...): expected is a function from the
\* keys it holds to their values.
MatcherPass(received, expected) ==
  \A key \in DOMAIN expected : EntryPasses(received, key, expected[key])

\* What the matcher returns: pass, and which of its two messages.
ToSatisfyImageAssertions(received, expected) ==
  IF MatcherPass(received, expected)
  THEN [message |-> "not to satisfy image assertions", pass |-> TRUE]
  ELSE [message |-> "to satisfy image assertions", pass |-> FALSE]

\* ------------------------------------------------------------------------
\* The inputs of the model
\* ------------------------------------------------------------------------

\* Longest text of arbitrary tokens a model reply is drawn from.
MaxLen == 3

\* "key": value
Member(key, value) == <<QT, key, QT, ":">> \o value

RECURSIVE JoinMembers(_, _)
\* The members that are there (not <<>>), sep between them.
JoinMembers(members, sep) ==
  IF members = <<>> THEN <<>>
  ELSE LET rest == JoinMembers(Tail(members), sep)
       IN  IF Head(members) = <<>> THEN rest
           ELSE IF rest = <<>> THEN Head(members)
           ELSE Head(members) \o sep \o rest

ObjectText(members) == <<"{">> \o JoinMembers(members, <<",", SP>>) \o <<"}">>

\* The same object printed one member to a line.
PrettyObjectText(members) ==
  <<"{", NL, SP>> \o JoinMembers(members, <<",", NL, SP>>) \o <<NL, "}">>

AssertionsMetMembers ==
  {<<>>} \cup {Member("assertionsMet", v) : v \in {<<"true">>, <<"false">>, <<QT, "yes", QT>>}}

ScoreMembers ==
  {<<>>} \cup {Member("score", v) : v \in {<<"0">>, <<"7">>, <<"10">>, <<QT, "9", QT>>}}

ToneMembers == {Member("tone", <<QT, t, QT>>) : t \in {"dreamy", "sepia"}}

\* Explanations: plain, quoting a fence with its tag, quoting two bare
\* fences.
Explanations ==
  {<<"ok">>,
   <<"no", SP, BT, BT, BT, "json", SP, "fence">>,
   <<BT, BT, BT, "x", BT, BT, BT>>}

ExplanationMembers == {Member("explanation", <<QT>> \o e \o <<QT>>) : e \in Explanations}

MemberLists ==
  {<<am, sc, tn, ex>> : am \in AssertionsMetMembers, sc \in ScoreMembers,
                        tn \in ToneMembers, ex \in ExplanationMembers}

\* The JSON object texts a model may answer with.
JsonTexts ==
  {ObjectText(m) : m \in MemberLists}
    \cup {PrettyObjectText(<<Member("assertionsMet", <<"true">>), Member("score", <<s>>)>>) :
            s \in {"7", "10"}}

FencedJson(text) == FenceJson \o <<NL>> \o text \o <<NL>> \o Fence

FencedPlain(text) == Fence \o <<NL>> \o text \o <<NL>> \o Fence

InProse(text) == <<"Here", SP>> \o text \o <<SP, "done">>

JunkTokens == {"{", "}", "x", NL}

\* Every text of 1..MaxLen junk tokens.
JunkTexts == UNION {[1..n -> JunkTokens] : n \in 1..MaxLen}

ReplyTexts ==
  JsonTexts \cup {FencedJson(j) : j \in JsonTexts} \cup {FencedPlain(j) : j \in JsonTexts}
    \cup {InProse(j) : j \in JsonTexts} \cup JunkTexts

Block(text) == [text |-> text]

TransportErrors ==
  {Err("ThrottlingException", "Too many requests"),
   Err("AccessDeniedException", "Not authorized")}

\* What the Converse call may settle with.
ConverseResponses ==
  {Response(e, "none", <<>>, Undefined) : e \in TransportErrors}
    \cup {Response(NoError, sh, <<>>, Undefined) : sh \in {"noOutput", "noMessage", "noContent", "content"}}
    \cup {Response(NoError, "content", <<Block(t)>>, Undefined) : t \in {Undefined, JsStr(<<>>)}}
    \cup {Response(NoError, "content", <<Block(Undefined), Block(JsStr(<<"{", "}">>))>>, Undefined)}
    \cup {Response(NoError, "content", <<Block(JsStr(t))>>, Undefined) : t \in ReplyTexts}

ImagesText(items) == ObjectText(<<Member("images", items)>>)

BodyTexts ==
  {<<"null">>, <<"7">>, <<"oops">>, <<"{", "}">>, <<"{", QT, "images">>,
   ImagesText(<<"null">>), ImagesText(<<"7">>),
   ImagesText(<<"[", "]">>),
   ImagesText(<<"[", QT, QT, "]">>),
   ImagesText(<<"[", "null", "]">>),
   ImagesText(<<"[", "7", "]">>),
   ImagesText(<<"[", QT, "QUJD", QT, "]">>),
   ImagesText(<<"[", QT, "QUJD", "eHl6", QT, ",", QT, "QUJD", QT, "]">>)}

\* What the InvokeModel call may settle with.
InvokeResponses ==
  {Response(e, "none", <<>>, Undefined) : e \in TransportErrors}
    \cup {Response(NoError, "none", <<>>, Undefined)}
    \cup {Response(NoError, "none", <<>>, JsBytes(t)) : t \in BodyTexts}

Regions == {<<"us-east-1">>, <<"eu-west-1">>}

\* The region option of the constructor.
ConstructorRegions == {Undefined, JsStr(<<>>)} \cup {JsStr(r) : r \in Regions}

Thresholds == {Undefined} \cup {JsNum(k) : k \in {0, 7, 8, 10}}

ImageBytesValues == {Undefined, JsBytes(<<>>), JsBytes(<<"ABC">>)}

Base64Values == {Undefined, JsStr(<<>>), JsStr(<<"QUJD">>)}

AssertionPrompts == {Undefined, JsStr(<<>>), JsStr(<<"cat">>)}

\* The options validateImage is called with: every way of giving or not
\* giving the image and the assertion, and every threshold.
ValidateOptions ==
  {Options(Undefined, Undefined, Undefined, ib, b64, ap, Undefined) :
     ib \in ImageBytesValues, b64 \in Base64Values, ap \in AssertionPrompts}
    \cup {Options(Undefined, m, Undefined, Undefined, JsStr(<<"QUJD">>), JsStr(<<"cat">>), t) :
            m \in {Undefined, JsStr(<<"custom-model">>)}, t \in Thresholds}

GenerateOptions ==
  {Options(JsStr(<<"cat">>), m, r, Undefined, Undefined, Undefined, Undefined) :
     m \in {Undefined, JsStr(<<"custom-model">>)},
     r \in {Undefined} \cup {JsStr(x) : x \in Regions \cup {<<"ap-south-1">>}}}

ExpectedValues(key) ==
  CASE key = "assertionsMet" -> {JsTrue, JsFalse}
    [] key = "score" -> {JsNum(k) : k \in {0, 6, 7, 8, 10}}
    [] key = "tone" -> {JsStr(<<"dreamy">>), JsStr(<<"photo-realistic">>)}
    [] key = "explanation" -> {JsStr(<<"ok">>)}
    [] OTHER -> {Undefined, JsStr(<<"ok">>)}

ExpectationsOver(keys) ==
  UNION {{f \in [D -> UNION {ExpectedValues(k) : k \in D}] :
            \A k \in D : f[k] \in ExpectedValues(k)} : D \in SUBSET keys}

\* The partial verdicts the matcher is given, and two with a key no
\* verdict has.
Expectations ==
  ExpectationsOver(VerdictKeys) \cup (ExpectationsOver({"score", "extra"}) \ ExpectationsOver({"score"}))

\* ------------------------------------------------------------------------
\* State
\* ------------------------------------------------------------------------

NoCommand == [text |-> <<>>, modelId |-> Undefined, api |-> "none", bytes |-> Undefined]

\* A caller with no call in progress.  Of a call: pc is "awaiting" (the
\* send is out, the method is suspended at its await) or "settled" (the
\* promise of the method has settled with outcome); client and command are
\* what was sent through, sends how many times send was called.
IdleCall ==
  [options |-> NoOptions, pc |-> "idle", op |-> "none", resp |-> NoResponse,
   outcome |-> NoOutcome, client |-> NoClient, command |-> NoCommand, sends |-> 0]

\* A test that holds no verdict yet.  has: validationResult is assigned;
\* ran: the matcher was applied to it, with expected, and gave pass and
\* message.
NoTest ==
  [message |-> "", expected |-> [k \in {} |-> Undefined], pass |-> FALSE,
   has |-> FALSE, validationResult |-> NoVerdict, ran |-> FALSE]

\* constructor(options): this.region = options.region || 'us-east-1', and
\* a client for it.
InitFor(callers) ==
  /\ \E r \in ConstructorRegions :
       /\ region = JsOr(r, JsStr(DefaultRegion)).s
       /\ bedrock = Client("configured", JsOr(r, JsStr(DefaultRegion)).s)
  /\ calls = [c \in callers |-> IdleCall]
  /\ test = NoTest

\* ------------------------------------------------------------------------
\* Actions
\* ------------------------------------------------------------------------

\* validateImage(options) up to its await: the two precondition checks,
\* then the command is built and sent through this.bedrock.
CallValidateImage(c, options) ==
  /\ calls[c].pc = "idle"
  /\ LET e == ValidatePreconditions(options)
     IN  calls' = [calls EXCEPT ![c] =
           IF e # NoError
           THEN [IdleCall EXCEPT !.pc = "settled", !.op = "validate",
                                 !.options = options,
                                 !.outcome = Threw(e, "precondition")]
           ELSE [IdleCall EXCEPT !.pc = "awaiting", !.op = "validate",
                                 !.options = options,
                                 !.client = bedrock,
                                 !.command = ConverseCommand(options),
                                 !.sends = 1]]
  /\ UNCHANGED <<region, bedrock, test>>

\* The send of a validateImage call settles and the method runs to its end.
ConverseSettles(c, resp) ==
  /\ calls[c].pc = "awaiting"
  /\ calls[c].op = "validate"
  /\ calls' = [calls EXCEPT ![c].pc = "settled",
                            ![c].resp = resp,
                            ![c].outcome = ValidateReply(calls[c].options, resp)]
  /\ UNCHANGED <<region, bedrock, test>>

\* generateImage(options) up to its await: the client is chosen, the
\* command is built and sent.
CallGenerateImage(c, options) ==
  /\ calls[c].pc = "idle"
  /\ calls' = [calls EXCEPT ![c] =
       [IdleCall EXCEPT !.pc = "awaiting", !.op = "generate",
                        !.options = options,
                        !.client = ClientFor(options, region, bedrock),
                        !.command = InvokeModelCommand(options),
                        !.sends = 1]]
  /\ UNCHANGED <<region, bedrock, test>>

\* The send of a generateImage call settles and the method runs to its end.
InvokeSettles(c, resp) ==
  /\ calls[c].pc = "awaiting"
  /\ calls[c].op = "generate"
  /\ calls' = [calls EXCEPT ![c].pc = "settled",
                            ![c].resp = resp,
                            ![c].outcome = GenerateReply(calls[c].options, resp)]
  /\ UNCHANGED <<region, bedrock, test>>

\* The caller is done with the outcome of its call and free to call again.
Release(c) ==
  /\ calls[c].pc = "settled"
  /\ calls' = [calls EXCEPT ![c] = IdleCall]
  /\ UNCHANGED <<region, bedrock, test>>

\* const validationResult = await imageAssertions.validateImage(...)
\* in a test, for a call that returned.
Await(c) ==
  /\ ~test.has
  /\ calls[c].pc = "settled"
  /\ calls[c].op = "validate"
  /\ calls[c].outcome.status = "returned"
  /\ test' = [NoTest EXCEPT !.has = TRUE,
                            !.validationResult = calls[c].outcome.verdict]
  /\ calls' = [calls EXCEPT ![c] = IdleCall]
  /\ UNCHANGED <<region, bedrock>>

\* expect(validationResult).toSatisfyImageAssertions(expected)
Expect(expected) ==
  /\ test.has
  /\ ~test.ran
  /\ LET r == ToSatisfyImageAssertions(test.validationResult, expected)
     IN  test' = [test EXCEPT !.ran = TRUE, !.expected = expected,
                              !.pass = r.pass, !.message = r.message]
  /\ UNCHANGED <<region, bedrock, calls>>

\* The test is over; the next one starts with nothing.
EndTest ==
  /\ test.has
  /\ test' = NoTest
  /\ UNCHANGED <<region, bedrock, calls>>

\* ------------------------------------------------------------------------
\* Spec: one test at a time, one call at a time, every input.
\* ------------------------------------------------------------------------

Tests == {"test"}

Init == InitFor(Tests)

Next ==
  \/ \E c \in Tests :
       \/ /\ ~test.has
          /\ \E o \in ValidateOptions : CallValidateImage(c, o)
       \/ \E r \in ConverseResponses : ConverseSettles(c, r)
       \/ /\ ~test.has
          /\ \E o \in GenerateOptions : CallGenerateImage(c, o)
       \/ \E r \in InvokeResponses : InvokeSettles(c, r)
       \/ Release(c)
       \/ Await(c)
  \/ \E e \in Expectations : Expect(e)
  \/ EndTest

Spec == Init /\ [][Next]_vars

\* ------------------------------------------------------------------------
\* SpecFence: the same validateImage call answered twice, with a JSON
\* object text and with that text in a markdown code block.
\* ------------------------------------------------------------------------

FenceCallers == {"plain", "fenced"}

FenceOptions ==
  {Options(Undefined, Undefined, Undefined, Undefined, JsStr(<<"QUJD">>), JsStr(<<"cat">>), t) :
     t \in Thresholds}

TextResponse(text) == Response(NoError, "content", <<Block(JsStr(text))>>, Undefined)

\* The text of the first content block of the reply to caller c, <<>> if
\* there is none.
ReplyText(c) ==
  LET r == calls[c].resp
  IN  IF r.error # NoError \/ r.shape # "content" \/ r.blocks = <<>> THEN <<>>
      ELSE r.blocks[1].text.s

FenceInit == InitFor(FenceCallers)

FenceNext ==
  \/ \E o \in FenceOptions : CallValidateImage("plain", o)
  \/ \E j \in JsonTexts : ConverseSettles("plain", TextResponse(j))
  \/ /\ calls["plain"].pc = "settled"
     /\ CallValidateImage("fenced", calls["plain"].options)
  \/ /\ calls["plain"].pc = "settled"
     /\ \E w \in {FencedJson(ReplyText("plain")), FencedPlain(ReplyText("plain"))} :
          ConverseSettles("fenced", TextResponse(w))
  \/ /\ \A c \in FenceCallers : calls[c].pc = "settled"
     /\ calls' = [c \in FenceCallers |-> IdleCall]
     /\ UNCHANGED <<region, bedrock, test>>

SpecFence == FenceInit /\ [][FenceNext]_vars

\* ------------------------------------------------------------------------
\* SpecConcurrent: several callers with calls in progress at once on one
\* instance, their sends settling in any order.
\* ------------------------------------------------------------------------

NumCallers == 2

Callers == 1..NumCallers

ConcurrentValidateOptions ==
  {Options(Undefined, Undefined, Undefined, Undefined, JsStr(<<"QUJD">>), JsStr(<<"cat">>), t) :
     t \in {Undefined, JsNum(10)}}
    \cup {Options(Undefined, Undefined, Undefined, Undefined, JsStr(<<"QUJD">>), Undefined, Undefined)}

ConcurrentConverseResponses ==
  {TextResponse(ObjectText(<<Member("assertionsMet", <<"true">>), Member("score", <<"7">>)>>)),
   TextResponse(<<"x">>),
   Response(NoError, "noOutput", <<>>, Undefined),
   Response(Err("ThrottlingException", "Too many requests"), "none", <<>>, Undefined)}

ConcurrentGenerateOptions ==
  {Options(JsStr(<<"cat">>), Undefined, r, Undefined, Undefined, Undefined, Undefined) :
     r \in {Undefined, JsStr(<<"eu-west-1">>)}}

ConcurrentInvokeResponses ==
  {Response(NoError, "none", <<>>, JsBytes(ImagesText(<<"[", QT, "QUJD", QT, "]">>))),
   Response(NoError, "none", <<>>, JsBytes(ImagesText(<<"[", "]">>))),
   Response(Err("ThrottlingException", "Too many requests"), "none", <<>>, Undefined)}

ConcurrentInit == InitFor(Callers)

ConcurrentNext ==
  \E c \in Callers :
    \/ \E o \in ConcurrentValidateOptions : CallValidateImage(c, o)
    \/ \E r \in ConcurrentConverseResponses : ConverseSettles(c, r)
    \/ \E o \in ConcurrentGenerateOptions : CallGenerateImage(c, o)
    \/ \E r \in ConcurrentInvokeResponses : InvokeSettles(c, r)
    \/ Release(c)

SpecConcurrent == ConcurrentInit /\ [][ConcurrentNext]_vars

\* ------------------------------------------------------------------------
\* Claims
\* ------------------------------------------------------------------------

\* The callers whose validateImage call has settled.
SettledValidate ==
  {c \in DOMAIN calls : calls[c].pc = "settled" /\ calls[c].op = "validate"}

\* The callers whose validateImage call returned a verdict.
ReturnedValidate == {c \in SettledValidate : calls[c].outcome.status = "returned"}

\* The object the reply to caller c parses to.
ParsedReply(c) == JSONParse(MatchBraces(CleanResponse(ReplyText(c)))).val

\* The threshold of the call of c: the one supplied, 7 otherwise.
ThresholdOf(c) ==
  IF calls[c].options.confidenceThreshold = Undefined THEN JsNum(7)
  ELSE calls[c].options.confidenceThreshold

\* The code has one error class, Error; the kinds of the specification
\* are the messages validateImage and generateImage throw it with.
IsInvalidInputError(e) == e.name = "Error" /\ e.message \in {MsgNoImage, MsgNoAssertion}

\* C1: whenever validateImage returns a verdict, its assertionsMet is
\* (parsed score >= threshold, 7 by default) AND (parsed assertionsMet):
\* true exactly when the boolean of the model is true and the score reaches
\* the threshold, the conjunction itself when the model gave a boolean, and
\* false whenever the threshold is above the score.
C1_ThresholdGate ==
  \A c \in ReturnedValidate :
    LET score == GetProp(ParsedReply(c), "score")
        own == GetProp(ParsedReply(c), "assertionsMet")
        met == calls[c].outcome.verdict.assertionsMet
        reached == JsGE(score, ThresholdOf(c))
    IN  /\ (met = JsTrue) <=> (reached /\ own = JsTrue)
        /\ own.t = "boolean" => met = JsBool(reached /\ own = JsTrue)
        /\ (score.t = "number" /\ ThresholdOf(c).n > score.n) => met = JsFalse
        /\ calls[c].outcome.verdict.score = score

\* C1 witness: the model said true with score 7, the threshold is above
\* it, and the verdict says false.
C1_Witness ==
  \E c \in ReturnedValidate :
    /\ GetProp(ParsedReply(c), "assertionsMet") = JsTrue
    /\ GetProp(ParsedReply(c), "score") = JsNum(7)
    /\ ThresholdOf(c).n > 7
    /\ calls[c].outcome.verdict.assertionsMet = JsFalse

\* C2: the matcher given {assertionsMet: true, score: s} passes if and
\* only if the verdict has assertionsMet true and a score >= s.
C2_FloorScore ==
  (/\ test.ran
   /\ DOMAIN test.expected = {"assertionsMet", "score"}
   /\ test.expected["assertionsMet"] = JsTrue)
  => (test.pass <=> /\ test.validationResult.assertionsMet = JsTrue
                    /\ JsGE(test.validationResult.score, test.expected["score"]))

\* C2 witness: such an expectation passed on a verdict whose score is
\* above the expected one.
C2_Witness ==
  /\ test.ran
  /\ DOMAIN test.expected = {"assertionsMet", "score"}
  /\ test.expected["assertionsMet"] = JsTrue
  /\ test.validationResult.score.t = "number"
  /\ test.validationResult.score.n > test.expected["score"].n
  /\ test.pass

\* C3: the matcher passes if and only if every field present in the
\* expectation passes (score: received >= expected; any other field: equal
\* values); absent fields count for nothing, the empty expectation passes.
C3_EveryPresentField ==
  test.ran =>
    LET v == test.validationResult
        e == test.expected
        holds(k) == IF k = "score" THEN JsGE(v.score, e[k])
                    ELSE IF k \in VerdictKeys THEN v[k] = e[k]
                    ELSE e[k] = Undefined
    IN  /\ test.pass <=> \A k \in DOMAIN e : holds(k)
        /\ DOMAIN e = {} => test.pass

\* C3 witness: of three fields present, assertionsMet and score pass and
\* tone does not, and the matcher fails.
C3_Witness ==
  /\ test.ran
  /\ DOMAIN test.expected = {"assertionsMet", "score", "tone"}
  /\ test.validationResult.assertionsMet = test.expected["assertionsMet"]
  /\ JsGE(test.validationResult.score, test.expected["score"])
  /\ test.validationResult.tone # test.expected["tone"]
  /\ ~test.pass

\* C4: a validateImage call given neither imageBytes nor base64Image, or
\* an empty or absent assertion, fails with InvalidInputError and sends
\* nothing.
C4_PreconditionsBeforeSend ==
  \A c \in DOMAIN calls :
    (/\ calls[c].op = "validate"
     /\ \/ calls[c].options.imageBytes = Undefined /\ calls[c].options.base64Image = Undefined
        \/ calls[c].options.assertionPrompt \in {Undefined, JsStr(<<>>)})
    => /\ calls[c].pc = "settled"
       /\ calls[c].outcome.status = "threw"
       /\ IsInvalidInputError(calls[c].outcome.error)
       /\ calls[c].sends = 0
       /\ calls[c].command = NoCommand
       /\ calls[c].client = NoClient
       /\ calls[c].resp = NoResponse

\* C4 witness: an image was given, the assertion is empty, and the call
\* has failed without a send.
C4_Witness ==
  \E c \in SettledValidate :
    /\ calls[c].options.base64Image = JsStr(<<"QUJD">>)
    /\ calls[c].options.assertionPrompt = JsStr(<<>>)
    /\ calls[c].outcome.error = Err("Error", MsgNoAssertion)
    /\ calls[c].sends = 0

\* The errors validateImage ends with when it cannot read the reply: its
\* own two, and the SyntaxError JSON.parse throws, which it lets through.
IsValidationError(e) ==
  e \in {Err("Error", MsgNoOutput), Err("Error", MsgNoJson), JsonSyntaxError}

\* options gives no image / no assertion.
NoImage(o) == o.imageBytes = Undefined /\ o.base64Image \in {Undefined, JsStr(<<>>)}

NoAssertion(o) == o.assertionPrompt \in {Undefined, JsStr(<<>>)}

\* C5: every failure mode of validateImage ends the call with an error of
\* its own kind: InvalidInputError for a missing image or assertion, the
\* error of the transport for a failed send, ValidationError for an empty
\* reply, a reply without a JSON span and malformed JSON; send is called
\* at most once and a failed call carries no verdict.
C5_FailureKinds ==
  \A c \in SettledValidate :
    LET o == calls[c].options
        r == calls[c].resp
        out == calls[c].outcome
        span == MatchBraces(CleanResponse(ReplyText(c)))
    IN  /\ calls[c].sends <= 1
        /\ out.status = "threw" => out.verdict = NoVerdict
        /\ ~(IsInvalidInputError(out.error) /\ IsValidationError(out.error))
        /\ IF NoImage(o) \/ NoAssertion(o)
           THEN out.status = "threw" /\ IsInvalidInputError(out.error) /\ calls[c].sends = 0
           ELSE IF r.error # NoError
           THEN out.status = "threw" /\ out.error = r.error
           ELSE IF ReplyText(c) = <<>> \/ span = <<>> \/ ~JSONParse(span).ok
           THEN out.status = "threw" /\ IsValidationError(out.error)
           ELSE out.status = "returned"

\* The messages generateImage wraps.
GenerationCauses ==
  {e.message : e \in TransportErrors \cup {JsonSyntaxError, ImagesOfNull, BufferArgument}}
    \cup {MsgNoBody, MsgNoImages, MsgNoImageData}

\* The one error generateImage throws: an Error whose message is the prefix
\* and the message of the cause.
IsGenerationError(e) ==
  e.name = "Error" /\ e.message \in {MsgGenerationFailed \o m : m \in GenerationCauses}

SettledGenerate ==
  {c \in DOMAIN calls : calls[c].pc = "settled" /\ calls[c].op = "generate"}

\* C6: generateImage fails with GenerationError alone, carrying the message
\* of the cause, when the send fails, the body is absent or is not JSON,
\* the image list is missing or empty (then citing that no images were
\* returned) or its first entry is empty or null; it returns a result only
\* when the first entry is not empty.
C6_GenerationError ==
  \A c \in SettledGenerate :
    LET r == calls[c].resp
        out == calls[c].outcome
        parsed == JSONParse(r.body.s)
        images == GetProp(parsed.val, "images")
        first == FirstOf(images)
        fails(m) == out.status = "threw" /\ out.error = Err("Error", MsgGenerationFailed \o m)
        read == r.error = NoError /\ r.body # Undefined /\ parsed.ok
    IN  /\ out.status = "threw" => IsGenerationError(out.error)
        /\ r.error # NoError => fails(r.error.message)
        /\ (r.error = NoError /\ r.body = Undefined) => fails(MsgNoBody)
        /\ (r.error = NoError /\ r.body # Undefined /\ ~parsed.ok) => fails(JsonSyntaxError.message)
        /\ (read /\ images.t \in {"undefined", "null"}) => out.status = "threw"
        /\ (read /\ images = JsArr(<<>>)) => fails(MsgNoImages)
        /\ (read /\ images.t = "array" /\ first \in {JsStr(<<>>), JsNull}) => fails(MsgNoImageData)
        /\ out.status = "returned" =>
             /\ first.t = "string" /\ first.s # <<>>
             /\ out.result.base64Image = first

\* C6 witness: the body held an empty image list and the call failed with
\* the wrapped message that no images were returned.
C6_Witness ==
  \E c \in SettledGenerate :
    /\ GetProp(JSONParse(calls[c].resp.body.s).val, "images") = JsArr(<<>>)
    /\ calls[c].outcome.error = Err("Error", MsgGenerationFailed \o MsgNoImages)

\* C7: a reply without a first text block (no output, message or content
\* list, an empty list, a first block without text or with empty text)
\* makes validateImage fail with ValidationError.
C7_NoTextIsValidationError ==
  \A c \in SettledValidate :
    (calls[c].sends = 1 /\ calls[c].resp.error = NoError /\ ReplyText(c) = <<>>)
    => /\ calls[c].outcome.status = "threw"
       /\ IsValidationError(calls[c].outcome.error)

\* No "{" of text has a "}" after it.
NoBracePair(text) ==
  ~\E i, j \in 1..Len(text) : i < j /\ text[i] = "{" /\ text[j] = "}"

\* C9: a reply text that is not empty and holds no "{" with a "}" after it
\* fails with ValidationError where the JSON block is matched: JSON.parse
\* is not reached and there is no verdict.
C9_NoBraces ==
  \A c \in SettledValidate :
    (calls[c].resp.error = NoError /\ ReplyText(c) # <<>> /\ NoBracePair(ReplyText(c)))
    => /\ calls[c].outcome.status = "threw"
       /\ calls[c].outcome.error = Err("Error", MsgNoJson)
       /\ calls[c].outcome.stage = "match"
       /\ calls[c].outcome.verdict = NoVerdict

\* C9 witness: the reply was a closing brace and then an opening one, and
\* the call failed for want of a JSON block.
C9_Witness ==
  \E c \in SettledValidate :
    /\ ReplyText(c) = <<"}", "{">>
    /\ calls[c].outcome.error = Err("Error", MsgNoJson)

\* C8: validateImage given a JSON object text in a markdown code block
\* (the opening fence with or without the json tag) ends as it does given
\* the text alone: the same verdict or the same failure.
C8_FencedSameOutcome ==
  \A c, d \in SettledValidate :
    (/\ calls[c].options = calls[d].options
     /\ ReplyText(c) \in JsonTexts
     /\ ReplyText(d) \in {FencedJson(ReplyText(c)), FencedPlain(ReplyText(c))})
    => calls[d].outcome = calls[c].outcome

SettledCalls == {c \in DOMAIN calls : calls[c].pc = "settled"}

\* C10: with any number of calls in progress at once and their sends
\* settling in any order, two calls of the same method with the same
\* options and the same reply end the same way, whatever the other calls
\* did meanwhile; a step of one call leaves the configuration of the
\* instance and the calls of the other callers as they were.
C10_CallsIndependent ==
  /\ [](\A c, d \in SettledCalls :
          (/\ calls[c].op = calls[d].op
           /\ calls[c].options = calls[d].options
           /\ calls[c].resp = calls[d].resp)
          => calls[c].outcome = calls[d].outcome)
  /\ [][/\ region' = region
        /\ bedrock' = bedrock
        /\ \E c \in DOMAIN calls : \A d \in DOMAIN calls \ {c} : calls'[d] = calls[d]]_vars

\* C10 witness: two callers at once hold verdicts, met, for the same
\* options and the same reply.
C10_Witness ==
  \E c, d \in ReturnedValidate :
    /\ c # d
    /\ calls[c].options = calls[d].options
    /\ calls[c].resp = calls[d].resp
    /\ calls[c].outcome.verdict.assertionsMet = JsTrue

\* The callers whose generateImage call has sent its request.
SentGenerate ==
  {c \in DOMAIN calls : calls[c].op = "generate" /\ calls[c].pc \in {"awaiting", "settled"}}

\* The region option of the generateImage call of c.
RequestedRegion(c) == calls[c].options.region

\* The client each generateImage call sent through: this.bedrock when the
\* region is absent or the configured one, a client of its own for the
\* requested region otherwise; this.bedrock is the client the constructor
\* made for this.region.
ClientOfEachCall ==
  /\ bedrock = Client("configured", region)
  /\ \A c \in SentGenerate :
       /\ calls[c].sends = 1
       /\ calls[c].command.api = "InvokeModel"
       /\ IF RequestedRegion(c) = Undefined \/ RequestedRegion(c) = JsStr(region)
          THEN calls[c].client = bedrock
          ELSE calls[c].client = Client("scoped", RequestedRegion(c).s)

====
